---- MODULE Spec2Model ----
(***************************************************************************)
(* Verification model of the two example programs                          *)
(*   examples/exAdvection.cpp  (DG advection driver and its integrators)   *)
(*   examples/distance.cpp     (Varadhan distance driver)                  *)
(*                                                                         *)
(* Numbers are integers.  The only fractional factor in the integrators    *)
(* is 0.5 applied to (un + |un|) or (un - |un|), which is always even, so  *)
(* Half below is exact.  The integrators are modelled for dim = 1, the     *)
(* only dimension in which the normal nor(0) = 2*x - 1 is fully set.       *)
(***************************************************************************)
EXTENDS Integers, Sequences, FiniteSets, TLC

VARIABLES
    prog,      \* which routine / program this behaviour runs
    pc,        \* position inside it
    call,      \* arguments of an integrator call
    qp,        \* quadrature points visited so far (data evaluated at each)
    elmat,     \* DenseMatrix &elmat
    elvect,    \* Vector &elvect
    err,       \* message of the fatal error raised, "" when none
    opts,      \* parsed command line and environment of a driver run
    stack,     \* automatic objects of main, in construction order
    heap,      \* objects allocated with new and not yet deleted
    integ,     \* integrators alive, each with its owning form and coefficients
    files,     \* output files opened for writing
    usage,     \* usage text was printed by this process
    exitCode,  \* value returned by main, -1 while running
    sys,       \* linear system of the distance driver: w, b, X, B, ess_tdof_list
    solver,    \* preconditioner and iterative solve status
    events     \* what main did so far: Max() evaluations and delete expressions

ivars == <<call, qp, elmat, elvect, err>>
dvars == <<opts, stack, heap, integ, files, usage, exitCode, sys, solver, events>>
vars == <<prog, pc, call, qp, elmat, elvect, err,
          opts, stack, heap, integ, files, usage, exitCode, sys, solver, events>>

(***************************************************************************)
(* Bounds                                                                  *)
(***************************************************************************)
MaxPts == 2
\* true dofs of the distance driver's FE space
NumDofs == 3
\* MPI ranks
NumProcs == 2

(***************************************************************************)
(* Numeric helpers                                                         *)
(***************************************************************************)
fabs(x) == IF x < 0 THEN -x ELSE x

\* 0.5 * x for the even x the integrators apply it to
Half(x) == x \div 2

\* nor(0) = 2 * eip.x - 1.0, with the reference coordinate given as x2 = 2 * eip.x
Nor(x2) == x2 - 1

\* reference coordinates (doubled) a face point can map to: 0, 1/2, 1
RefX2 == {0, 1, 2}

\* values the velocity coefficient takes (velocity_function gives -1 in 1-D)
VelVals == {-1, 1}

\* quadrature weights
IpWeights == {1, 2}

\* values of the prescribed boundary coefficient uD
UDVals == {-1, 2}

\* local dof counts of the elements met (order 0 and order 1 segments)
Dofs == {1, 2}

\* shape-function value vectors CalcShape can return for an element with n dofs
ShapeSet(n) ==
    IF n = 0 THEN {<< >>}
    ELSE IF n = 1 THEN {<<1>>, <<2>>}
    ELSE {<<1, 0>>, <<2, -1>>, <<1, 1>>}

ZeroMat(n) == [ij \in (1..n) \X (1..n) |-> 0]
ZeroVec(n) == [i \in 1..n |-> 0]

\* contents elvect may hold when the caller hands it in
ElvectIn == {<< >>, <<9, 9, 9>>}

NoCall == [el1dof |-> 0, el2dof |-> 0, Elem2No |-> -1, npts |-> 0,
           debug |-> FALSE, delta |-> "none", elvect0 |-> << >>]

\* state of main before it has done anything
NoOpts == [good |-> FALSE, myid |-> 0, pa |-> FALSE, orderPos |-> TRUE,
           mesh_file |-> "", nodes |-> FALSE, delete_fec |-> FALSE,
           tensor |-> FALSE, suitesparse |-> FALSE]
NoSys == [bdrDofs |-> {}, ess |-> {}, w |-> << >>, b |-> << >>, X |-> << >>,
          B |-> << >>, wBC |-> << >>, formed |-> FALSE, recovered |-> FALSE]
NoSolver == [prec |-> "NULL", attached |-> "none", used |-> "none",
             mult |-> "before", iterative |-> FALSE, converged |-> FALSE,
             checked |-> FALSE]
\* maxEvals: one record per evaluation of bdr_attributes.Max(), with the size
\* of the array at that moment; deletes: the objects main applied delete to
NoEvents == [maxEvals |-> {}, deletes |-> << >>]

IdleD ==
    /\ opts = NoOpts
    /\ stack = << >>
    /\ heap = {}
    /\ integ = {}
    /\ files = {}
    /\ usage = FALSE
    /\ exitCode = -1
    /\ sys = NoSys
    /\ solver = NoSolver
    /\ events = NoEvents

(***************************************************************************)
(* DGFaceIntegrator::AssembleFaceMatrix                                    *)
(***************************************************************************)
FaceNdof1(c) == c.el1dof
FaceNdof2(c) == IF c.Elem2No >= 0 THEN c.el2dof ELSE 0

\* b taken as un itself, the fabs left out
FaceW1NoAbs(wt, un) == Half(wt * (un + un))
\* w = 0.5 * ip.weight * (a + b), a = un, b = fabs(un)
FaceW1(wt, un) == Half(wt * (un + fabs(un)))
\* the first weight used again for the element-2 blocks
FaceW2Copied(wt, un) == Half(wt * (un + fabs(un)))
\* w = 0.5 * ip.weight * (a - b)
FaceW2(wt, un) == Half(wt * (un - fabs(un)))

\* the element-2 cross block of the element-1 rows added instead of subtracted
FacePointUpdateCrossAdded(m, n1, n2, wt, un, sh1, sh2) ==
    LET w1 == FaceW1(wt, un)
        w2 == FaceW2(wt, un)
    IN [ij \in (1..(n1 + n2)) \X (1..(n1 + n2)) |->
          LET r == ij[1]
              c == ij[2]
          IN IF r <= n1 /\ c <= n1
               THEN (IF w1 # 0 THEN m[ij] + w1 * sh1[r] * sh1[c] ELSE m[ij])
             ELSE IF r <= n1 /\ c > n1
               THEN (IF w1 # 0 THEN m[ij] + w1 * sh2[c - n1] * sh1[r] ELSE m[ij])
             ELSE IF r > n1 /\ c > n1
               THEN (IF w2 # 0 THEN m[ij] - w2 * sh2[r - n1] * sh2[c - n1] ELSE m[ij])
             ELSE (IF w2 # 0 THEN m[ij] + w2 * sh1[c] * sh2[r - n1] ELSE m[ij])]

\* the four block updates of one quadrature point
FacePointUpdate(m, n1, n2, wt, un, sh1, sh2) ==
    LET w1 == FaceW1(wt, un)
        w2 == FaceW2(wt, un)
    IN [ij \in (1..(n1 + n2)) \X (1..(n1 + n2)) |->
          LET r == ij[1]
              c == ij[2]
          IN IF r <= n1 /\ c <= n1
               THEN (IF w1 # 0 THEN m[ij] + w1 * sh1[r] * sh1[c] ELSE m[ij])
             ELSE IF r <= n1 /\ c > n1
               THEN (IF w1 # 0 THEN m[ij] - w1 * sh2[c - n1] * sh1[r] ELSE m[ij])
             ELSE IF r > n1 /\ c > n1
               THEN (IF w2 # 0 THEN m[ij] - w2 * sh2[r - n1] * sh2[c - n1] ELSE m[ij])
             ELSE (IF w2 # 0 THEN m[ij] + w2 * sh1[c] * sh2[r - n1] ELSE m[ij])]

InitFace ==
    /\ prog = "face"
    /\ pc = "entry"
    /\ \E d1 \in Dofs, d2 \in Dofs, e2 \in {-1, 0}, n \in 1..MaxPts :
          call = [NoCall EXCEPT !.el1dof = d1, !.el2dof = d2, !.Elem2No = e2, !.npts = n]
    /\ qp = << >>
    /\ elmat = ZeroMat(0)
    /\ elvect = << >>
    /\ err = ""

\* lines 228-263: sizes, elmat = 0.0, integration rule
FaceSetup ==
    /\ prog = "face" /\ pc = "entry"
    /\ elmat' = ZeroMat(FaceNdof1(call) + FaceNdof2(call))
    /\ pc' = "loop"
    /\ UNCHANGED <<prog, call, qp, elvect, err>>
    /\ UNCHANGED dvars

\* lines 265-329: one pass of the loop over quadrature points
FacePoint ==
    /\ prog = "face" /\ pc = "loop"
    /\ Len(qp) < call.npts
    /\ \E wt \in IpWeights, vu \in VelVals, x2 \in RefX2,
          sh1 \in ShapeSet(FaceNdof1(call)), sh2 \in ShapeSet(FaceNdof2(call)) :
          LET un == vu * Nor(x2)
          IN /\ elmat' = FacePointUpdate(elmat, FaceNdof1(call), FaceNdof2(call),
                                         wt, un, sh1, sh2)
             /\ qp' = Append(qp, [un |-> un, weight |-> wt, uD |-> 0,
                                  shape1 |-> sh1, shape2 |-> sh2])
    /\ UNCHANGED <<prog, pc, call, elvect, err>>
    /\ UNCHANGED dvars

\* loop exit and return
FaceReturn ==
    /\ prog = "face" /\ pc = "loop"
    /\ Len(qp) >= call.npts
    /\ pc' = "returned"
    /\ UNCHANGED <<prog, call, qp, elmat, elvect, err>>
    /\ UNCHANGED dvars

(***************************************************************************)
(* BoundaryAdvectIntegrator::AssembleRHSElementVect, face overload         *)
(***************************************************************************)
\* the matrix weight 0.5 * (un + fabs(un)) in place of the inflow weight
BdrWCopied(un) == Half(un + fabs(un))
\* w = -0.5 * (un - fabs(un))
BdrW(un) == -Half(un - fabs(un))

\* w *= ip.weight * uD->Eval(...); elvect.Add(w, shape)
BdrPointUpdate(v, n, wt, un, ud, sh) ==
    LET w == BdrW(un) * (wt * ud)
    IN [i \in 1..n |-> v[i] + w * sh[i]]

InitBdr ==
    /\ prog = "bdrface"
    /\ pc = "entry"
    /\ \E d \in Dofs, n \in 1..MaxPts, e0 \in ElvectIn :
          /\ call = [NoCall EXCEPT !.el1dof = d, !.npts = n, !.elvect0 = e0]
          /\ elvect = e0
    /\ qp = << >>
    /\ elmat = ZeroMat(0)
    /\ err = ""

\* lines 335-356: elvect.SetSize(ndof); elvect = 0.0; integration rule
BdrSetup ==
    /\ prog = "bdrface" /\ pc = "entry"
    /\ elvect' = ZeroVec(call.el1dof)
    /\ pc' = "loop"
    /\ UNCHANGED <<prog, call, qp, elmat, err>>
    /\ UNCHANGED dvars

\* lines 357-372: one pass of the loop over quadrature points
BdrPoint ==
    /\ prog = "bdrface" /\ pc = "loop"
    /\ Len(qp) < call.npts
    /\ \E wt \in IpWeights, vu \in VelVals, x2 \in RefX2, ud \in UDVals,
          sh \in ShapeSet(call.el1dof) :
          LET un == vu * Nor(x2)
          IN /\ elvect' = BdrPointUpdate(elvect, call.el1dof, wt, un, ud, sh)
             /\ qp' = Append(qp, [un |-> un, weight |-> wt, uD |-> ud,
                                  shape1 |-> sh, shape2 |-> << >>])
    /\ UNCHANGED <<prog, pc, call, elmat, err>>
    /\ UNCHANGED dvars

BdrReturn ==
    /\ prog = "bdrface" /\ pc = "loop"
    /\ Len(qp) >= call.npts
    /\ pc' = "returned"
    /\ UNCHANGED <<prog, call, qp, elmat, elvect, err>>
    /\ UNCHANGED dvars

(***************************************************************************)
(* BoundaryAdvectIntegrator::AssembleRHSElementVect, element overload      *)
(***************************************************************************)
\* mfem_error: prints the message and aborts the program; it never returns
mfem_error(msg, ev) == [pc |-> "aborted", err |-> msg, elvect |-> ev]

\* a body that assembles a zero vector and returns instead of failing
BdrElemSilent(n, ev) == [pc |-> "returned", err |-> "", elvect |-> ZeroVec(n)]

\* lines 375-382: the body is the single call of mfem_error
BdrElemBody(n, ev) ==
    mfem_error("BoundaryFlowIntegrator::AssembleRHSElementVect is not implemented as boundary integrator!", ev)

InitBdrElem ==
    /\ prog = "bdrelem"
    /\ pc = "entry"
    /\ \E d \in Dofs, e0 \in ElvectIn :
          /\ call = [NoCall EXCEPT !.el1dof = d, !.elvect0 = e0]
          /\ elvect = e0
    /\ qp = << >>
    /\ elmat = ZeroMat(0)
    /\ err = ""

BdrElemAssemble ==
    /\ prog = "bdrelem" /\ pc = "entry"
    /\ LET out == BdrElemBody(call.el1dof, elvect)
       IN /\ pc' = out.pc
          /\ err' = out.err
          /\ elvect' = out.elvect
    /\ UNCHANGED <<prog, call, qp, elmat>>
    /\ UNCHANGED dvars

(***************************************************************************)
(* AdvDomainLFIntegrator::AssembleDeltaElementVect                         *)
(***************************************************************************)
\* MFEM_ASSERT(cond, msg): checked only in builds that define MFEM_DEBUG,
\* compiled to nothing otherwise
MFEM_ASSERT(cond, debug) == IF debug /\ ~cond THEN "abort" ELSE "continue"

\* values delta->EvalDelta can return
DeltaVals == {1, 3}

\* what a read through the null delta pointer can yield when it does not trap
GarbageVals == {0, 5}

Scale(sh, n, v) == [i \in 1..n |-> sh[i] * v]

InitDelta ==
    /\ prog = "delta"
    /\ pc = "entry"
    /\ \E d \in Dofs, dbg \in BOOLEAN, dl \in {"NULL", "set"}, e0 \in ElvectIn :
          /\ call = [NoCall EXCEPT !.el1dof = d, !.debug = dbg, !.delta = dl,
                                   !.elvect0 = e0]
          /\ elvect = e0
    /\ qp = << >>
    /\ elmat = ZeroMat(0)
    /\ err = ""

\* lines 172-179
DeltaAssemble ==
    /\ prog = "delta" /\ pc = "entry"
    /\ IF MFEM_ASSERT(call.delta # "NULL", call.debug) = "abort"
         THEN /\ pc' = "aborted"
              /\ err' = "coefficient must be DeltaCoefficient"
              /\ elvect' = elvect
         ELSE \E sh \in ShapeSet(call.el1dof) :
                \* elvect.SetSize(fe.GetDof()); fe.CalcPhysShape(Trans, elvect)
                IF call.delta # "NULL"
                  THEN \E dv \in DeltaVals :
                         /\ elvect' = Scale(sh, call.el1dof, dv)
                         /\ pc' = "returned"
                         /\ err' = ""
                  ELSE \* delta->EvalDelta through a null pointer: the call
                       \* traps, or goes on with whatever it read
                       \/ /\ elvect' = Scale(sh, call.el1dof, 1)
                          /\ pc' = "crashed"
                          /\ err' = ""
                       \/ \E g \in GarbageVals :
                            /\ elvect' = Scale(sh, call.el1dof, g)
                            /\ pc' = "returned"
                            /\ err' = ""
    /\ UNCHANGED <<prog, call, qp, elmat>>
    /\ UNCHANGED dvars

InitInteg == (InitFace \/ InitBdr \/ InitBdrElem \/ InitDelta) /\ IdleD

NextInteg ==
    \/ FaceSetup \/ FacePoint \/ FaceReturn
    \/ BdrSetup \/ BdrPoint \/ BdrReturn
    \/ BdrElemAssemble
    \/ DeltaAssemble

SpecInteg == InitInteg /\ [][NextInteg]_vars

(***************************************************************************)
(* Properties of the integrators                                           *)
(***************************************************************************)
N1 == FaceNdof1(call)
N2 == FaceNdof2(call)
Pts == 1..Len(qp)
AllUnPos == \A k \in Pts : qp[k].un > 0
AllUnNeg == \A k \in Pts : qp[k].un < 0
AllUnNonNeg == \A k \in Pts : qp[k].un >= 0
InteriorFaceDone ==
    prog = "face" /\ pc = "returned" /\ call.Elem2No >= 0 /\ N2 > 0

\* C1: on an interior face, un > 0 at every quadrature point leaves every
\* entry of the element-2 rows of elmat exactly zero, and un < 0 at every
\* quadrature point leaves the element-1-row cross block exactly zero.
C1_UpwindSignCheck ==
    InteriorFaceDone =>
        /\ AllUnPos =>
             \A r \in (N1 + 1)..(N1 + N2), c \in 1..(N1 + N2) : elmat[<<r, c>>] = 0
        /\ AllUnNeg =>
             \A r \in 1..N1, c \in (N1 + 1)..(N1 + N2) : elmat[<<r, c>>] = 0

\* C1 witness: an interior face with two points, un > 0 at both, whose
\* element-1 rows did receive a cross-block contribution.
C1_Witness ==
    /\ InteriorFaceDone
    /\ Len(qp) >= 2
    /\ AllUnPos
    /\ \E r \in 1..N1, c \in (N1 + 1)..(N1 + N2) : elmat[<<r, c>>] # 0

\* the inflow weight in closed form: |un| when un < 0, nothing otherwise
InflowWeight(un) == IF un < 0 THEN -un ELSE 0

RECURSIVE InflowSum(_, _)
InflowSum(k, i) ==
    IF k = 0 THEN 0
    ELSE InflowSum(k - 1, i)
         + InflowWeight(qp[k].un) * qp[k].weight * qp[k].uD * qp[k].shape1[i]

BdrFaceDone == prog = "bdrface" /\ pc = "returned"

\* C2: the face overload returns elvect[i] = sum_p w_p * weight_p * uD_p *
\* shape_i(x_p) with w_p = -0.5 * (un_p - |un_p|), so only points with
\* un_p < 0 contribute and elvect is zero when un_p >= 0 at every point.
C2_InflowRhs ==
    BdrFaceDone =>
        /\ DOMAIN elvect = 1..call.el1dof
        /\ \A i \in 1..call.el1dof : elvect[i] = InflowSum(Len(qp), i)
        /\ AllUnNonNeg => \A i \in 1..call.el1dof : elvect[i] = 0

\* C2 witness: a finished call with one inflow and one non-inflow point and
\* a nonzero result.
C2_Witness ==
    /\ BdrFaceDone
    /\ \E k \in Pts : qp[k].un < 0
    /\ \E k \in Pts : qp[k].un > 0
    /\ \E i \in 1..call.el1dof : elvect[i] # 0

\* C6: the element overload always ends in a fatal error with a message
\* and leaves elvect as the caller passed it.
C6_NonFaceFatal ==
    (prog = "bdrelem" /\ pc # "entry") =>
        /\ pc = "aborted"
        /\ err # ""
        /\ elvect = call.elvect0

\* C6 witness: the overload was called with a non-empty elvect and aborted.
C6_Witness ==
    prog = "bdrelem" /\ pc = "aborted" /\ call.elvect0 = <<9, 9, 9>>

\* C7: with delta == NULL the delta assembly halts with a fatal assertion
\* and a message, elvect untouched, in every build configuration.
C7_DeltaNullHalts ==
    (prog = "delta" /\ call.delta = "NULL" /\ pc # "entry") =>
        /\ pc = "aborted"
        /\ err # ""
        /\ elvect = call.elvect0

RECURSIVE SumSeq(_)
SumSeq(s) == IF s = << >> THEN 0 ELSE Head(s) + SumSeq(Tail(s))

\* the shape values of both elements sum to 1 at every point visited
PartitionOfUnity ==
    \A k \in Pts : SumSeq(qp[k].shape1) = 1 /\ SumSeq(qp[k].shape2) = 1

RECURSIVE RowSum(_, _)
RowSum(r, c) == IF c = 0 THEN 0 ELSE RowSum(r, c - 1) + elmat[<<r, c>>]

\* C11: on an interior face whose shape values sum to 1 for each element at
\* every quadrature point, every row of the combined (ndof1+ndof2) square
\* matrix returned by AssembleFaceMatrix sums to zero, whatever the sign and
\* magnitude of un at the points.
C11_RowSumsZero ==
    (InteriorFaceDone /\ PartitionOfUnity) =>
        \A r \in 1..(N1 + N2) : RowSum(r, N1 + N2) = 0

\* C11 witness: an interior face with an outflow and an inflow point, shape
\* values summing to 1, and nonzero entries in rows of both elements.
C11_Witness ==
    /\ InteriorFaceDone
    /\ PartitionOfUnity
    /\ \E k \in Pts : qp[k].un > 0
    /\ \E k \in Pts : qp[k].un < 0
    /\ \E r \in 1..N1, c \in 1..(N1 + N2) : elmat[<<r, c>>] # 0
    /\ \E r \in (N1 + 1)..(N1 + N2), c \in 1..(N1 + N2) : elmat[<<r, c>>] # 0

\* a call of either integrator on a boundary face, past its setup
BoundaryFaceRun ==
    \/ prog = "face" /\ call.Elem2No < 0 /\ pc # "entry"
    \/ prog = "bdrface" /\ pc # "entry"

\* weight of the matrix term and of the prescribed-value term at point k,
\* both carrying the quadrature weight of the point
MatrixWeightAt(k) == FaceW1(qp[k].weight, qp[k].un)
RhsWeightAt(k) == BdrW(qp[k].un) * qp[k].weight

\* C12: at every quadrature point of a boundary face the matrix weight
\* 0.5*(un+|un|) and the right-hand-side weight -0.5*(un-|un|) are both
\* >= 0 and sum to |un| (times the quadrature weight), exactly one of them
\* is nonzero when un # 0 and both are zero when un = 0.
C12_ComplementaryWeights ==
    BoundaryFaceRun =>
        \A k \in Pts :
            /\ MatrixWeightAt(k) >= 0
            /\ RhsWeightAt(k) >= 0
            /\ MatrixWeightAt(k) + RhsWeightAt(k) = qp[k].weight * fabs(qp[k].un)
            /\ qp[k].un # 0 => ((MatrixWeightAt(k) = 0) # (RhsWeightAt(k) = 0))
            /\ qp[k].un = 0 => (MatrixWeightAt(k) = 0 /\ RhsWeightAt(k) = 0)

\* C12 witness: a boundary-face matrix assembled over an outflow point,
\* which filled the matrix, and a point with un = 0.
C12_Witness ==
    /\ prog = "face" /\ call.Elem2No < 0 /\ pc = "returned"
    /\ \E k \in Pts : qp[k].un > 0
    /\ \E k \in Pts : qp[k].un = 0
    /\ \E r \in 1..N1, c \in 1..N1 : elmat[<<r, c>>] # 0

(***************************************************************************)
(* Drivers: bookkeeping shared by both main functions                      *)
(***************************************************************************)
Range(q) == {q[k] : k \in 1..Len(q)}

\* objects of main alive: automatic ones and those allocated with new
Live == Range(stack) \cup heap

\* bdr_attributes.Max() evaluated at the given line on an array of that size
MaxEvaluated(line, size) ==
    [events EXCEPT !.maxEvals = @ \cup {[line |-> line, size |-> size]}]

\* a delete expression of main applied to a non-null pointer
Deleted(obj) == [events EXCEPT !.deletes = Append(@, obj)]

\* a form's destructor deletes the integrators the form owns
DropOwned(set, form) == {r \in set : r.owner # form}

IdleI ==
    /\ call = NoCall
    /\ qp = << >>
    /\ elmat = ZeroMat(0)
    /\ elvect = << >>
    /\ err = ""

\* scope exit of main: automatic objects are destroyed in reverse order of
\* construction, one destructor at a time
Unwind ==
    /\ prog \in {"distance", "advection"} /\ pc = "unwind"
    /\ stack # << >>
    /\ stack' = SubSeq(stack, 1, Len(stack) - 1)
    /\ integ' = DropOwned(integ, stack[Len(stack)])
    /\ UNCHANGED <<prog, pc, opts, heap, files, usage, exitCode, sys, solver, events>>
    /\ UNCHANGED ivars

\* main has returned
Exit ==
    /\ prog \in {"distance", "advection"} /\ pc = "unwind"
    /\ stack = << >>
    /\ pc' = "exited"
    /\ UNCHANGED <<prog, opts, stack, heap, integ, files, usage, exitCode, sys, solver, events>>
    /\ UNCHANGED ivars

(***************************************************************************)
(* distance.cpp: main                                                      *)
(***************************************************************************)
MeshFiles == {"../data/inline-segment.mesh", "./cir.msh", "../data/star.mesh"}

\* lines 267-278: the mesh files main has an exact distance for
HasExactDist(f) ==
    f \in {"../data/inline-segment.mesh", "../data/inline-quad.mesh", "./cir.msh"}

\* ConstantCoefficient one(1.0)
OneVal == 1
\* return 1 after a failed parse, return 0 at the end
DistBadArgsCode == 1
DistSuccessCode == 0

\* lines 131-134: only rank 0 prints the usage text
DistUsagePrinted(myid) == myid = 0

\* a failed parse that does not return
DistAfterParseNoReturn(good) == "mesh"
\* lines 129-137: return after a failed parse, go on otherwise
DistAfterParse(good) == IF good THEN "mesh" ELSE "unwind"

InitDist ==
    /\ prog = "distance"
    /\ pc = "start"
    /\ IdleI
    /\ IdleD

\* lines 94-138: MPI_Init, options, args.Parse(), args.Good()
DistParse ==
    /\ prog = "distance" /\ pc = "start"
    /\ \E good \in BOOLEAN, id \in 0..(NumProcs - 1) :
         IF ~good
           THEN /\ opts' = [opts EXCEPT !.good = FALSE, !.myid = id]
                /\ usage' = DistUsagePrinted(id)
                /\ exitCode' = DistBadArgsCode
                /\ pc' = DistAfterParse(FALSE)
           ELSE \E p \in BOOLEAN, op \in BOOLEAN, mf \in MeshFiles :
                /\ opts' = [opts EXCEPT !.good = TRUE, !.myid = id, !.pa = p,
                                        !.orderPos = op, !.mesh_file = mf]
                /\ usage' = FALSE
                /\ exitCode' = exitCode
                /\ pc' = DistAfterParse(TRUE)
    /\ stack' = <<"args">>
    /\ UNCHANGED <<prog, heap, integ, files, sys, solver, events>>
    /\ UNCHANGED ivars

\* lines 142-161: device, serial mesh, parallel mesh, refinement
DistMesh ==
    /\ prog = "distance" /\ pc = "mesh"
    /\ stack' = stack \o <<"device", "mesh", "pmesh">>
    /\ pc' = "fespace"
    /\ UNCHANGED <<prog, opts, heap, integ, files, usage, exitCode, sys, solver, events>>
    /\ UNCHANGED ivars

\* lines 166-189: FE collection (owned by main or by the mesh nodes), FE space
DistFESpace ==
    /\ prog = "distance" /\ pc = "fespace"
    /\ \E nd \in (IF opts.orderPos THEN {FALSE} ELSE BOOLEAN) :
         IF opts.orderPos \/ ~nd
           THEN /\ heap' = heap \cup {"fec"}
                /\ opts' = [opts EXCEPT !.nodes = nd, !.delete_fec = TRUE]
           ELSE /\ heap' = heap
                /\ opts' = [opts EXCEPT !.nodes = nd, !.delete_fec = FALSE]
    /\ \E bd \in SUBSET (1..NumDofs) : sys' = [sys EXCEPT !.bdrDofs = bd]
    /\ stack' = Append(stack, "fespace")
    /\ pc' = "ess"
    /\ UNCHANGED <<prog, integ, files, usage, exitCode, solver, events>>
    /\ UNCHANGED ivars

\* pmesh.bdr_attributes.Size(): nonzero exactly when the mesh has a boundary
BdrAttrSize(bd) == IF bd = {} THEN 0 ELSE 1

\* lines 195-201: every boundary attribute marked essential
DistEssential ==
    /\ prog = "distance" /\ pc = "ess"
    /\ stack' = Append(stack, "ess_tdof_list")
    /\ sys' = [sys EXCEPT !.ess = IF BdrAttrSize(sys.bdrDofs) # 0
                                    THEN sys.bdrDofs ELSE {}]
    /\ events' = IF BdrAttrSize(sys.bdrDofs) # 0
                    THEN MaxEvaluated(198, BdrAttrSize(sys.bdrDofs))
                    ELSE events
    /\ pc' = "bc"
    /\ UNCHANGED <<prog, opts, heap, integ, files, usage, exitCode, solver>>
    /\ UNCHANGED ivars

\* Array::Max() of an array of the given size: defined for size > 0; on an
\* empty array a debug build asserts, any other build reads past the array
ArrayMax(size) == IF size > 0 THEN {"ok"} ELSE {"aborted", "crashed", "ok"}

\* the boundary value projected is 0 instead of the coefficient one
DistProjectZero(bd) == [i \in 1..NumDofs |-> 0]
\* lines 204-208: w = 0.0; w.ProjectBdrCoefficient(one, bdr)
DistProjectBdr(bd) == [i \in 1..NumDofs |-> IF i \in bd THEN OneVal ELSE 0]

\* lines 204-208: the solution vector with its Dirichlet values
DistBoundaryValues ==
    /\ prog = "distance" /\ pc = "bc"
    /\ \E out \in ArrayMax(BdrAttrSize(sys.bdrDofs)) :
         IF out = "ok"
           THEN /\ stack' = stack \o <<"w", "bdr", "one">>
                /\ sys' = [sys EXCEPT !.w = DistProjectBdr(sys.bdrDofs)]
                /\ pc' = "forms"
                /\ err' = err
           ELSE /\ stack' = Append(stack, "w")
                /\ sys' = [sys EXCEPT !.w = ZeroVec(NumDofs)]
                /\ pc' = out
                /\ err' = IF out = "aborted" THEN "Array is empty" ELSE ""
    /\ events' = MaxEvaluated(206, BdrAttrSize(sys.bdrDofs))
    /\ UNCHANGED <<prog, opts, heap, integ, files, usage, exitCode, solver>>
    /\ UNCHANGED <<call, qp, elmat, elvect>>

\* lines 211-212: ParLinearForm b(&fespace); b = 0.0; no integrator is added
DistRhs == ZeroVec(NumDofs)

\* lines 211-226: linear form, bilinear form with mass and diffusion terms
DistForms ==
    /\ prog = "distance" /\ pc = "forms"
    /\ stack' = stack \o <<"b", "a", "t_coeff">>
    /\ integ' = integ \cup
                  {[name |-> "MassIntegrator", owner |-> "a", coeffs |-> {"one"}],
                   [name |-> "DiffusionIntegrator", owner |-> "a",
                    coeffs |-> {"t_coeff"}]}
    /\ sys' = [sys EXCEPT !.b = DistRhs]
    /\ pc' = "form_sys"
    /\ UNCHANGED <<prog, opts, heap, files, usage, exitCode, solver, events>>
    /\ UNCHANGED ivars

\* the assembled operator (mass + t * diffusion) on a chain of dofs
AOp(i, j) == IF i = j THEN 4 ELSE IF i - j = 1 \/ j - i = 1 THEN -1 ELSE 0

\* FormLinearSystem: essential rows and columns eliminated, their
\* contributions moved to the right-hand side; X starts from the prescribed
\* values at the essential dofs and from zero elsewhere
FormLinearSystem(ess, x, b) ==
    [X |-> [i \in 1..NumDofs |-> IF i \in ess THEN x[i] ELSE 0],
     B |-> [i \in 1..NumDofs |->
              IF i \in ess THEN x[i]
              ELSE b[i]
                   - (IF (i - 1) \in ess THEN AOp(i, i - 1) * x[i - 1] ELSE 0)
                   - (IF (i + 1) \in ess THEN AOp(i, i + 1) * x[i + 1] ELSE 0)]]

\* the call with the solution and the right-hand side exchanged
DistFormArgsSwapped(s) == [ess |-> s.ess, x |-> s.b, b |-> s.w]
\* line 230: a.FormLinearSystem(ess_tdof_list, w, b, A, X, B)
DistFormArgs(s) == [ess |-> s.ess, x |-> s.w, b |-> s.b]

\* lines 228-230
DistFormLinearSystem ==
    /\ prog = "distance" /\ pc = "form_sys"
    /\ stack' = stack \o <<"A", "B", "X">>
    /\ LET arg == DistFormArgs(sys)
           ls == FormLinearSystem(arg.ess, arg.x, arg.b)
       IN sys' = [sys EXCEPT !.X = ls.X, !.B = ls.B, !.wBC = sys.w, !.formed = TRUE]
    /\ pc' = "prec"
    /\ UNCHANGED <<prog, opts, heap, integ, files, usage, exitCode, solver, events>>
    /\ UNCHANGED ivars

\* Jacobi chosen for every matrix-free operator
PrecChoiceAlwaysJacobi(pa, tensor) == IF pa THEN "jacobi" ELSE "amg"
\* lines 235-243
PrecChoice(pa, tensor) ==
    IF pa THEN (IF tensor THEN "jacobi" ELSE "NULL") ELSE "amg"

\* lines 235-250: preconditioner, CG solver, SetPreconditioner, SetOperator
DistPrec ==
    /\ prog = "distance" /\ pc = "prec"
    /\ \E tb \in (IF opts.pa THEN BOOLEAN ELSE {FALSE}) :
         LET pr == PrecChoice(opts.pa, tb)
         IN /\ opts' = [opts EXCEPT !.tensor = tb]
            /\ heap' = IF pr # "NULL" THEN heap \cup {"prec"} ELSE heap
            /\ solver' = [solver EXCEPT !.prec = pr,
                            !.attached = IF pr # "NULL" THEN pr ELSE "none"]
    /\ stack' = Append(stack, "cg")
    /\ pc' = "solve"
    /\ UNCHANGED <<prog, integ, files, usage, exitCode, sys, events>>
    /\ UNCHANGED ivars

\* values the iteration can leave at a dof it solves for
SolVals == {0, 2}

\* cg.Mult(B, X): iterates on the eliminated system; the essential entries
\* of X keep their values, the others end wherever the iteration stops
CgMult(X, ess) ==
    {[i \in 1..NumDofs |-> IF i \in ess THEN X[i] ELSE v[i]] :
        v \in [1..NumDofs -> SolVals]}

\* line 251: cg.Mult(B, X); the convergence flag is not read
DistSolve ==
    /\ prog = "distance" /\ pc = "solve"
    /\ \E x \in CgMult(sys.X, sys.ess), conv \in BOOLEAN :
         /\ sys' = [sys EXCEPT !.X = x]
         /\ solver' = [solver EXCEPT
                         !.mult = "returned",
                         !.iterative = TRUE,
                         !.converged = conv,
                         !.checked = FALSE,
                         !.used = IF solver.attached = "none" THEN "none"
                                  ELSE IF "prec" \in heap THEN solver.attached
                                  ELSE "dangling"]
    /\ pc' = "del_prec"
    /\ UNCHANGED <<prog, opts, stack, heap, integ, files, usage, exitCode, events>>
    /\ UNCHANGED ivars

\* line 252: delete prec
DistDeletePrec ==
    /\ prog = "distance" /\ pc = "del_prec"
    /\ heap' = heap \ {"prec"}
    /\ events' = IF "prec" \in heap THEN Deleted("prec") ELSE events
    /\ pc' = "recover"
    /\ UNCHANGED <<prog, opts, stack, integ, files, usage, exitCode, sys, solver>>
    /\ UNCHANGED ivars

\* RecoverFEMSolution(X, b, x): the solution vector takes the values of X
RecoverFEMSolution(X, b, x) == X

\* lines 256-263: recover w, Varadhan transformation into u
DistRecover ==
    /\ prog = "distance" /\ pc = "recover"
    /\ sys' = [sys EXCEPT !.w = RecoverFEMSolution(sys.X, sys.b, sys.w),
                          !.recovered = TRUE]
    /\ stack' = Append(stack, "u")
    /\ pc' = "error"
    /\ UNCHANGED <<prog, opts, heap, integ, files, usage, exitCode, solver, events>>
    /\ UNCHANGED ivars

\* lines 265-294: exact distance chosen by mesh file name, error norms
DistError ==
    /\ prog = "distance" /\ pc = "error"
    /\ stack' = Append(stack, "u_error")
    /\ heap' = IF HasExactDist(opts.mesh_file) THEN heap \cup {"exact_dist"} ELSE heap
    /\ pc' = "output"
    /\ UNCHANGED <<prog, opts, integ, files, usage, exitCode, sys, solver, events>>
    /\ UNCHANGED ivars

\* lines 298-356: mesh and solution files, sockets, ParaView collection
DistOutput ==
    /\ prog = "distance" /\ pc = "output"
    /\ files' = files \cup {"mesh.myid", "sol.myid", "ParaView/Dist"}
    /\ stack' = Append(stack, "paraview_dc")
    /\ pc' = "finish"
    /\ UNCHANGED <<prog, opts, heap, integ, usage, exitCode, sys, solver, events>>
    /\ UNCHANGED ivars

\* lines 360-363: delete fec when owned, MPI_Finalize, return 0
DistFinish ==
    /\ prog = "distance" /\ pc = "finish"
    /\ heap' = IF opts.delete_fec THEN heap \ {"fec"} ELSE heap
    /\ events' = IF opts.delete_fec THEN Deleted("fec") ELSE events
    /\ exitCode' = DistSuccessCode
    /\ pc' = "unwind"
    /\ UNCHANGED <<prog, opts, stack, integ, files, usage, sys, solver>>
    /\ UNCHANGED ivars

NextDist ==
    \/ DistParse \/ DistMesh \/ DistFESpace \/ DistEssential
    \/ DistBoundaryValues \/ DistForms \/ DistFormLinearSystem \/ DistPrec
    \/ DistSolve \/ DistDeletePrec \/ DistRecover \/ DistError \/ DistOutput
    \/ DistFinish

(***************************************************************************)
(* exAdvection.cpp: main                                                   *)
(***************************************************************************)
\* return 1 after a failed parse, return 0 at the end
AdvBadArgsCode == 1
AdvSuccessCode == 0

\* lines 103-107: the deletes, in order
AdvDeleteOrder == <<"a", "b", "fespace", "fec", "mesh">>

\* the build either has SuiteSparse (direct UMFPACK solve) or not (GMRES)
InitAdv ==
    /\ prog = "advection"
    /\ pc = "start"
    /\ IdleI
    /\ stack = << >>
    /\ heap = {}
    /\ integ = {}
    /\ files = {}
    /\ usage = FALSE
    /\ exitCode = -1
    /\ sys = NoSys
    /\ solver = NoSolver
    /\ events = NoEvents
    /\ \E ss \in BOOLEAN : opts = [NoOpts EXCEPT !.suitesparse = ss]

\* lines 26-39: options, args.Parse(), args.Good()
AdvParse ==
    /\ prog = "advection" /\ pc = "start"
    /\ \E good \in BOOLEAN, op \in BOOLEAN :
         /\ opts' = [opts EXCEPT !.good = good, !.orderPos = op]
         /\ usage' = ~good
         /\ exitCode' = IF good THEN exitCode ELSE AdvBadArgsCode
         /\ pc' = IF good THEN "mesh" ELSE "unwind"
    /\ stack' = <<"args">>
    /\ UNCHANGED <<prog, heap, integ, files, sys, solver, events>>
    /\ UNCHANGED ivars

\* lines 40-45: mesh, first VTK file
AdvMesh ==
    /\ prog = "advection" /\ pc = "mesh"
    /\ heap' = heap \cup {"mesh"}
    /\ stack' = Append(stack, "sol_ofv")
    /\ files' = files \cup {"square_disc_mesh.vtk"}
    /\ pc' = "fespace"
    /\ UNCHANGED <<prog, opts, integ, usage, exitCode, sys, solver, events>>
    /\ UNCHANGED ivars

\* lines 48-50: DG collection and FE space
AdvSpace ==
    /\ prog = "advection" /\ pc = "fespace"
    /\ heap' = heap \cup {"fec", "fespace"}
    /\ pc' = "lform"
    /\ UNCHANGED <<prog, opts, stack, integ, files, usage, exitCode, sys, solver, events>>
    /\ UNCHANGED ivars

\* lines 53-63: linear form, coefficients, its two integrators
AdvLinearForm ==
    /\ prog = "advection" /\ pc = "lform"
    /\ heap' = heap \cup {"b"}
    /\ stack' = stack \o <<"one", "zero", "f", "u", "left", "right", "velocity">>
    /\ integ' = integ \cup
                  {[name |-> "AdvDomainLFIntegrator", owner |-> "b", coeffs |-> {"f"}],
                   [name |-> "BoundaryAdvectIntegrator", owner |-> "b",
                    coeffs |-> {"u", "velocity"}]}
    /\ pc' = "bform"
    /\ UNCHANGED <<prog, opts, files, usage, exitCode, sys, solver, events>>
    /\ UNCHANGED ivars

\* lines 64-73: bilinear form and its three transposed integrators
AdvBilinearForm ==
    /\ prog = "advection" /\ pc = "bform"
    /\ heap' = heap \cup {"a"}
    /\ integ' = integ \cup
                  {[name |-> "AdvectionIntegrator", owner |-> "a",
                    coeffs |-> {"velocity"}],
                   [name |-> "DGFaceIntegrator(interior)", owner |-> "a",
                    coeffs |-> {"velocity"}],
                   [name |-> "DGFaceIntegrator(boundary)", owner |-> "a",
                    coeffs |-> {"velocity"}]}
    /\ pc' = "project"
    /\ UNCHANGED <<prog, opts, stack, files, usage, exitCode, sys, solver, events>>
    /\ UNCHANGED ivars

\* lines 74-75: GridFunction x, projected exact solution as initial guess
AdvProject ==
    /\ prog = "advection" /\ pc = "project"
    /\ stack' = Append(stack, "x")
    /\ pc' = "solve"
    /\ UNCHANGED <<prog, opts, heap, integ, files, usage, exitCode, sys, solver, events>>
    /\ UNCHANGED ivars

\* lines 76-88: GMRES behind a Gauss-Seidel smoother, its result discarded,
\* or the direct UMFPACK solve
AdvSolve ==
    /\ prog = "advection" /\ pc = "solve"
    /\ IF opts.suitesparse
         THEN /\ stack' = Append(stack, "umf_solver")
              /\ solver' = [solver EXCEPT !.mult = "returned", !.iterative = FALSE,
                                          !.converged = TRUE]
         ELSE /\ stack' = Append(stack, "M")
              /\ \E conv \in BOOLEAN :
                   solver' = [solver EXCEPT !.mult = "returned", !.iterative = TRUE,
                                            !.converged = conv, !.checked = FALSE,
                                            !.prec = "gs", !.attached = "gs",
                                            !.used = "gs"]
    /\ pc' = "output"
    /\ UNCHANGED <<prog, opts, heap, integ, files, usage, exitCode, sys, events>>
    /\ UNCHANGED ivars

\* lines 89-101: solution file, L2 error, printing
AdvOutput ==
    /\ prog = "advection" /\ pc = "output"
    /\ stack' = Append(stack, "adj_ofs")
    /\ files' = files \cup {"dgAdvection.vtk"}
    /\ pc' = "free"
    /\ UNCHANGED <<prog, opts, heap, integ, usage, exitCode, sys, solver, events>>
    /\ UNCHANGED ivars

\* lines 103-107: one delete at a time, in the order written
AdvDelete ==
    /\ prog = "advection" /\ pc = "free"
    /\ \E k \in 1..Len(AdvDeleteOrder) :
         /\ AdvDeleteOrder[k] \in heap
         /\ \A j \in 1..(k - 1) : AdvDeleteOrder[j] \notin heap
         /\ heap' = heap \ {AdvDeleteOrder[k]}
         /\ integ' = DropOwned(integ, AdvDeleteOrder[k])
         /\ events' = Deleted(AdvDeleteOrder[k])
    /\ UNCHANGED <<prog, pc, opts, stack, files, usage, exitCode, sys, solver>>
    /\ UNCHANGED ivars

\* line 108: return 0
AdvReturn ==
    /\ prog = "advection" /\ pc = "free"
    /\ \A k \in 1..Len(AdvDeleteOrder) : AdvDeleteOrder[k] \notin heap
    /\ exitCode' = AdvSuccessCode
    /\ pc' = "unwind"
    /\ UNCHANGED <<prog, opts, stack, heap, integ, files, usage, sys, solver, events>>
    /\ UNCHANGED ivars

NextAdv ==
    \/ AdvParse \/ AdvMesh \/ AdvSpace \/ AdvLinearForm \/ AdvBilinearForm
    \/ AdvProject \/ AdvSolve \/ AdvOutput \/ AdvDelete \/ AdvReturn

InitMain == InitDist \/ InitAdv

NextMain == NextDist \/ NextAdv \/ Unwind \/ Exit

SpecMain == InitMain /\ [][NextMain]_vars

(***************************************************************************)
(* Properties of the drivers                                               *)
(***************************************************************************)
Driver == prog \in {"distance", "advection"}

\* C3: a run whose iterative solve did not converge does not end with the
\* success exit code unless the convergence status was looked at.
C3_NonConvergenceSurfaced ==
    (Driver /\ pc = "exited" /\ solver.iterative /\ ~solver.converged) =>
        (exitCode # 0 \/ solver.checked)

\* C4: after FormLinearSystem, cg.Mult and RecoverFEMSolution, w holds at
\* every essential dof the value prescribed there before elimination.
C4_DirichletExact ==
    (prog = "distance" /\ sys.recovered) =>
        \A i \in sys.ess : sys.w[i] = sys.wBC[i]

\* C4 witness: a recovered solution with essential and free dofs, whose
\* free part the solve has changed.
C4_Witness ==
    /\ prog = "distance" /\ sys.recovered
    /\ sys.ess # {}
    /\ \E i \in (1..NumDofs) \ sys.ess : sys.w[i] # sys.wBC[i]

ParseFailed == Driver /\ pc # "start" /\ ~opts.good

NothingBuilt ==
    /\ Range(stack) \subseteq {"args"}
    /\ heap = {}
    /\ integ = {}
    /\ files = {}

\* C5 as stated: a failed parse always prints the usage text, returns 1 and
\* builds or writes nothing; a run that parses and reaches its end returns 0.
C5_UsageAlways ==
    /\ ParseFailed => (usage /\ exitCode = 1 /\ NothingBuilt)
    /\ (Driver /\ pc = "exited" /\ opts.good) => exitCode = 0

\* C5 amended: as above, except that in the distance driver the usage text
\* is printed by MPI rank 0 only.
C5_ParseFailure ==
    /\ ParseFailed =>
         /\ usage = (prog = "advection" \/ opts.myid = 0)
         /\ exitCode = 1
         /\ NothingBuilt
    /\ (Driver /\ pc = "exited" /\ opts.good) => exitCode = 0

\* C5 witness: the distance driver on a rank other than 0 has returned from
\* a failed parse without printing.
C5_Witness ==
    prog = "distance" /\ pc = "exited" /\ ~opts.good /\ opts.myid # 0 /\ ~usage

\* C8: every coefficient referenced by a live integrator is itself alive.
C8_CoefficientsOutliveIntegrators ==
    Driver => \A r \in integ : r.coeffs \subseteq Live

LoadOfOne == [i \in 1..NumDofs |-> IF i = 1 \/ i = NumDofs THEN 1 ELSE 2]

C13_MaxGuarded ==
    prog = "distance" => \A e \in events.maxEvals : e.size > 0

\* no object was handed to delete twice
DeletedAtMostOnce ==
    \A j, k \in 1..Len(events.deletes) :
        events.deletes[j] = events.deletes[k] => j = k

\* C14: when main of either driver has returned, every object it allocated
\* with new has been deleted exactly once (none is still allocated, none was
\* deleted twice), and an FE collection owned by the mesh nodes was not
\* deleted by main.
C14_AllocationsReleased ==
    (Driver /\ pc = "exited") =>
        /\ heap = {}
        /\ DeletedAtMostOnce
        /\ (prog = "distance" /\ ~opts.delete_fec) =>
               "fec" \notin Range(events.deletes)

====
